---- MODULE Spec2Model ----
(***************************************************************************)
(* Model of cspaceThreshImg.py: colorspace thresholding of a BGR image.    *)
(*                                                                         *)
(* Numbers.  The bounds are numpy float64 values of the form n/100 (the    *)
(* code divides an integer product by 100, Python 3 true division).  The   *)
(* model keeps every such value exactly, as the integer count of 1/Unit    *)
(* parts (127.5 is 12750); the last-bit rounding of float64 is below that  *)
(* resolution and is not modelled.                                         *)
(*                                                                         *)
(* Python values.  A bound is a record [kind, v]: kind is the Python type  *)
(* ("ndarray", "float64", "list", "float", or "None" while unbound) and v  *)
(* the sequence of its components (one component for a scalar).            *)
(*                                                                         *)
(* Indices.  Python's slider_pos[0..5] is slider_pos[1..6] here, channel   *)
(* c of the code is channel c+1 here.                                      *)
(*                                                                         *)
(* OpenCV.  cv2.cvtColor and cv2.inRange are library calls.  cvtColor is   *)
(* modelled as an unknown per-pixel function into the target colorspace's  *)
(* pixel type (any such function may be the library's); inRange by its     *)
(* documented contract, the inclusive test on every channel.               *)
(***************************************************************************)
EXTENDS Integers, Sequences, FiniteSets, TLC

\* ------------------------------------------------------------ bounds
\* How far outside [0,100] the slider positions of the model reach.
SliderOver == 10
\* How many identifiers on each side of 0..7 the direct helper calls try.
IdSlack == 1
\* Pixels per image.
NumPixels == 1

\* ------------------------------------------------------------ numbers
\* Parts per unit of the fixed-point representation: the code's divisor.
Unit == 100

\* numpy: int array / 100 under floor division (Python 2 semantics).
FloorDivide100(x) == (x \div 100) * Unit

\* numpy: int array / 100, true division, exact in 1/Unit parts.
TrueDivide100(x) == (x * Unit) \div 100

\* An integer of the code as a number of the model.
FromInt(n) == n * Unit

None == [kind |-> "None", v |-> <<>>]

\* ------------------------------------------------------------ tables
\* main's cspace_dict.
cspace_dict ==
    [BGR |-> 0, HSV |-> 1, HLS |-> 2, Lab |-> 3,
     Luv |-> 4, YCrCb |-> 5, XYZ |-> 6, Gray |-> 7]

\* The labels main's docstring says it takes.
DocLabels == {"BGR", "HSV", "HLS", "Lab", "Luv", "YCrCb", "XYZ", "Grayscale"}

\* __cspaceSwitch's convert_code.
convert_code ==
    (1 :> "COLOR_BGR2HSV") @@ (2 :> "COLOR_BGR2HLS") @@ (3 :> "COLOR_BGR2Lab") @@
    (4 :> "COLOR_BGR2Luv") @@ (5 :> "COLOR_BGR2YCrCb") @@ (6 :> "COLOR_BGR2XYZ") @@
    (7 :> "COLOR_BGR2GRAY")

\* __cspaceBounds' min_dict and max_dict.
min_dict == (3 :> <<0, 1, 1>>)
max_dict == (1 :> <<180, 255, 255>>) @@ (2 :> <<180, 255, 255>>)

\* ------------------------------------------------------------ inputs
SliderVals == {0 - SliderOver, 0, 50, 100, 100 + SliderOver}
SliderSeqs == [1..6 -> SliderVals]

\* The (low, high) pairs main's sliders are drawn from, one pair per channel.
SliderPairs ==
    {<<0, 100>>, <<0, 50>>, <<50, 100>>,
     <<0 - SliderOver, 100>>, <<0, 100 + SliderOver>>,
     <<100 + SliderOver, 100 + SliderOver>>, <<0 - SliderOver, 0 - SliderOver>>}
MainSliders ==
    {<<a[1], a[2], b[1], b[2], c[1], c[2]>> : a \in SliderPairs, b \in SliderPairs, c \in SliderPairs}

Labels == (DOMAIN cspace_dict) \cup DocLabels \cup {"CMYK"}
CspaceIds == (0 - IdSlack)..(7 + IdSlack)

\* 8-bit BGR pixels and images.
BGRPixels == {<<0, 0, 0>>, <<255, 255, 255>>}
Images == [1..NumPixels -> BGRPixels]

\* (lowerb, upperb) a direct __cspaceRange call is given on one channel.
BoundPairs == {<<0, 0>>, <<0, FromInt(255)>>, <<TrueDivide100(50 * 255), FromInt(255)>>}
ArrayBounds ==
    {[lowerb |-> [kind |-> "ndarray", v |-> <<a[1], b[1], c[1]>>],
      upperb |-> [kind |-> "ndarray", v |-> <<a[2], b[2], c[2]>>]] :
        a \in BoundPairs, b \in BoundPairs, c \in BoundPairs}
ScalarBounds ==
    {[lowerb |-> [kind |-> "float64", v |-> <<a[1]>>],
      upperb |-> [kind |-> "float64", v |-> <<a[2]>>]] : a \in BoundPairs}
\* Bounds shaped like the colorspace's pixels.
RangeBounds(cspace) == IF cspace = 7 THEN ScalarBounds ELSE ArrayBounds

\* ------------------------------------------------------------ OpenCV
\* Pixels cv2.cvtColor may produce: one 8-bit channel for COLOR_BGR2GRAY,
\* three otherwise (hue at most 179 in the 8-bit HSV and HLS encodings).
CvtPixels(code) ==
    IF code = "COLOR_BGR2GRAY"
    THEN {<<0>>, <<128>>, <<255>>}
    ELSE {<<0, 0, 0>>, <<90, 128, 255>>, <<179, 255, 255>>}

\* cv2.cvtColor(img, code): the images an unknown per-pixel function gives.
CvtColor(img, code) ==
    {[i \in DOMAIN img |-> f[img[i]]] : f \in [BGRPixels -> CvtPixels(code)]}

\* The inclusive test of one pixel, all its channels.
PixelInRange(px, lowerb, upperb) ==
    \A c \in DOMAIN px : lowerb.v[c] <= FromInt(px[c]) /\ FromInt(px[c]) <= upperb.v[c]

\* cv2.inRange(img, lowerb, upperb): 255 where the pixel passes, else 0.
InRange(img, lowerb, upperb) ==
    [i \in DOMAIN img |-> IF PixelInRange(img[i], lowerb, upperb) THEN 255 ELSE 0]

\* ------------------------------------------------------------ helpers
\* __cspaceSwitch: the dict subscript raises KeyError off 1..7.
SwitchRaises(cspace) == cspace # 0 /\ cspace \notin DOMAIN convert_code

\* __cspaceSwitch: img itself for BGR, else the conversion's result.
CspaceSwitch(img, cspace) ==
    IF cspace = 0 THEN {img} ELSE CvtColor(img, convert_code[cspace])

\* min_dict.get without the Lab entry.
MinsNoLab(cspace) == <<0, 0, 0>>

\* min_dict.get(cspace, np.array([0, 0, 0]))
Mins(cspace) == IF cspace \in DOMAIN min_dict THEN min_dict[cspace] ELSE <<0, 0, 0>>

\* max_dict.get(cspace, np.array([255, 255, 255]))
Maxs(cspace) == IF cspace \in DOMAIN max_dict THEN max_dict[cspace] ELSE <<255, 255, 255>>

\* raw * (maxs - mins) / 100 with the "+ mins" left out.
ScaleNoOffset(raw, mins, maxs) ==
    [c \in 1..3 |-> TrueDivide100(raw[c] * (maxs[c] - mins[c]))]

\* raw * (maxs - mins) / 100 + mins under floor division.
ScaleFloor(raw, mins, maxs) ==
    [c \in 1..3 |-> FloorDivide100(raw[c] * (maxs[c] - mins[c])) + FromInt(mins[c])]

\* raw * (mins - maxs) / 100 + mins: the difference the wrong way round.
ScaleReversed(raw, mins, maxs) ==
    [c \in 1..3 |-> TrueDivide100(raw[c] * (mins[c] - maxs[c])) + FromInt(mins[c])]

\* The sliders clamped to [0,100] before the scaling.
ScaleClamped(raw, mins, maxs) ==
    [c \in 1..3 |->
        LET r == IF raw[c] < 0 THEN 0 ELSE IF raw[c] > 100 THEN 100 ELSE raw[c]
        IN  TrueDivide100(r * (maxs[c] - mins[c])) + FromInt(mins[c])]

\* raw * (maxs - mins) / 100 + mins, elementwise.
Scale(raw, mins, maxs) ==
    [c \in 1..3 |-> TrueDivide100(raw[c] * (maxs[c] - mins[c])) + FromInt(mins[c])]

\* __cspaceBounds with a subscripted min_dict/max_dict: KeyError off the keys.
BoundsRaisesOffKeys(cspace) == cspace \notin 0..7

\* __cspaceBounds never raises on an integer identifier: both dicts are
\* read with .get and a default.
BoundsRaises(cspace) == FALSE

\* __cspaceBounds: the pair (lowerb, upperb).
CspaceBounds(cspace, slider_pos) ==
    LET mins == Mins(cspace)
        maxs == Maxs(cspace)
        lowerb == Scale(<<slider_pos[1], slider_pos[3], slider_pos[5]>>, mins, maxs)
        upperb == Scale(<<slider_pos[2], slider_pos[4], slider_pos[6]>>, mins, maxs)
    IN  IF cspace = 7
        THEN [lowerb |-> [kind |-> "float64", v |-> <<lowerb[1]>>],
              upperb |-> [kind |-> "float64", v |-> <<upperb[1]>>]]
        ELSE [lowerb |-> [kind |-> "ndarray", v |-> lowerb],
              upperb |-> [kind |-> "ndarray", v |-> upperb]]

\* __cspaceRange's inRange call with the two bounds exchanged.
CspaceRangeSwapped(cvt, lowerb, upperb) == InRange(cvt, upperb, lowerb)

\* __cspaceRange after the conversion: the mask of the converted image.
CspaceRange(cvt, lowerb, upperb) == InRange(cvt, lowerb, upperb)

\* ndarray.tolist() is a list; np.float64.tolist() is a Python float.
ToList(x) == [kind |-> IF x.kind = "ndarray" THEN "list" ELSE "float", v |-> x.v]

\* cspace_dict.get(label, 0): an unknown label taken for BGR.
LookupLabelDefault(label) ==
    IF label \in DOMAIN cspace_dict
    THEN [ok |-> TRUE, id |-> cspace_dict[label]]
    ELSE [ok |-> TRUE, id |-> 0]

\* cspace_dict[cspace_label]: KeyError (ok = FALSE) on an unknown label.
LookupLabel(label) ==
    IF label \in DOMAIN cspace_dict
    THEN [ok |-> TRUE, id |-> cspace_dict[label]]
    ELSE [ok |-> FALSE, id |-> 0]

\* ------------------------------------------------------------ state
VARIABLES
    pc,            \* "idle", main's next line, "returned" or "raised"
    entry,         \* the function called: "main", "bounds", "switch", "range"
    img,           \* the image argument (<<>> when there is none)
    cspace_label,  \* main's label argument
    slider_pos,    \* the slider positions argument (<<>> when there is none)
    cspace,        \* the colorspace identifier; bound once pc has passed line 135
    lowerb,        \* the lower bound: argument, local or result
    upperb,        \* the upper bound
    cvt_img,       \* __cspaceSwitch's result (<<>> before it)
    bin_img,       \* the mask (<<>> before it)
    ret,           \* main's return value
    err,           \* the exception raised ("" when none)
    calls          \* the helpers and library calls run so far, in order

vars == <<pc, entry, img, cspace_label, slider_pos, cspace, lowerb, upperb,
          cvt_img, bin_img, ret, err, calls>>

NoReturn == [kind |-> "None", bin_img |-> <<>>, cspace_label |-> "", lowerb |-> None, upperb |-> None]

Init ==
    /\ pc = "idle"
    /\ entry = ""
    /\ img = <<>>
    /\ cspace_label = ""
    /\ slider_pos = <<>>
    /\ cspace = 0
    /\ lowerb = None
    /\ upperb = None
    /\ cvt_img = <<>>
    /\ bin_img = <<>>
    /\ ret = NoReturn
    /\ err = ""
    /\ calls = <<>>

\* ------------------------------------------------------------ main
\* main(img, cspace_label, slider_pos) is called.
CallMain(i, l, s) ==
    /\ pc = "idle"
    /\ pc' = "main_135"
    /\ entry' = "main"
    /\ img' = i
    /\ cspace_label' = l
    /\ slider_pos' = s
    /\ UNCHANGED <<cspace, lowerb, upperb, cvt_img, bin_img, ret, err, calls>>

\* cspace = cspace_dict[cspace_label]
MainResolve ==
    /\ pc = "main_135"
    /\ LET r == LookupLabel(cspace_label)
       IN  IF r.ok
           THEN /\ cspace' = r.id
                /\ pc' = "main_138"
                /\ err' = err
           ELSE /\ cspace' = cspace
                /\ pc' = "raised"
                /\ err' = "KeyError"
    /\ UNCHANGED <<entry, img, cspace_label, slider_pos, lowerb, upperb,
                   cvt_img, bin_img, ret, calls>>

\* lowerb, upperb = __cspaceBounds(cspace, slider_pos)
MainBounds ==
    /\ pc = "main_138"
    /\ calls' = Append(calls, "__cspaceBounds")
    /\ IF BoundsRaises(cspace)
       THEN /\ pc' = "raised"
            /\ err' = "KeyError"
            /\ UNCHANGED <<lowerb, upperb>>
       ELSE /\ pc' = "main_139"
            /\ err' = err
            /\ lowerb' = CspaceBounds(cspace, slider_pos).lowerb
            /\ upperb' = CspaceBounds(cspace, slider_pos).upperb
    /\ UNCHANGED <<entry, img, cspace_label, slider_pos, cspace, cvt_img, bin_img, ret>>

\* bin_img = __cspaceRange(img, cspace, lowerb, upperb)
MainRange ==
    /\ pc = "main_139"
    /\ IF SwitchRaises(cspace)
       THEN /\ pc' = "raised"
            /\ err' = "KeyError"
            /\ calls' = calls \o <<"__cspaceRange", "__cspaceSwitch">>
            /\ UNCHANGED <<cvt_img, bin_img>>
       ELSE \E cvt \in CspaceSwitch(img, cspace) :
                /\ cvt_img' = cvt
                /\ bin_img' = CspaceRange(cvt, lowerb, upperb)
                /\ calls' = calls \o <<"__cspaceRange", "__cspaceSwitch", "cv2.inRange">>
                /\ pc' = "main_142"
                /\ err' = err
    /\ UNCHANGED <<entry, img, cspace_label, slider_pos, cspace, lowerb, upperb, ret>>

\* lowerb = lowerb.tolist(); upperb = upperb.tolist(); return
MainOutput ==
    /\ pc = "main_142"
    /\ lowerb' = ToList(lowerb)
    /\ upperb' = ToList(upperb)
    /\ ret' = [kind |-> "tuple", bin_img |-> bin_img, cspace_label |-> cspace_label,
               lowerb |-> ToList(lowerb), upperb |-> ToList(upperb)]
    /\ pc' = "returned"
    /\ UNCHANGED <<entry, img, cspace_label, slider_pos, cspace, cvt_img, bin_img, err, calls>>

\* ------------------------------------------------------------ the helpers, called directly
\* __cspaceBounds(cspace, slider_pos)
CallBounds(c, s) ==
    /\ pc = "idle"
    /\ entry' = "bounds"
    /\ cspace' = c
    /\ slider_pos' = s
    /\ calls' = <<"__cspaceBounds">>
    /\ IF BoundsRaises(c)
       THEN /\ pc' = "raised"
            /\ err' = "KeyError"
            /\ UNCHANGED <<lowerb, upperb>>
       ELSE /\ pc' = "returned"
            /\ err' = err
            /\ lowerb' = CspaceBounds(c, s).lowerb
            /\ upperb' = CspaceBounds(c, s).upperb
    /\ UNCHANGED <<img, cspace_label, cvt_img, bin_img, ret>>

\* __cspaceSwitch(img, cspace)
CallSwitch(i, c) ==
    /\ pc = "idle"
    /\ entry' = "switch"
    /\ img' = i
    /\ cspace' = c
    /\ calls' = <<"__cspaceSwitch">>
    /\ IF SwitchRaises(c)
       THEN /\ pc' = "raised"
            /\ err' = "KeyError"
            /\ cvt_img' = cvt_img
       ELSE /\ pc' = "returned"
            /\ err' = err
            /\ cvt_img' \in CspaceSwitch(i, c)
    /\ UNCHANGED <<cspace_label, slider_pos, lowerb, upperb, bin_img, ret>>

\* __cspaceRange(img, cspace, lowerb, upperb)
CallRange(i, c, b) ==
    /\ pc = "idle"
    /\ entry' = "range"
    /\ img' = i
    /\ cspace' = c
    /\ lowerb' = b.lowerb
    /\ upperb' = b.upperb
    /\ IF SwitchRaises(c)
       THEN /\ pc' = "raised"
            /\ err' = "KeyError"
            /\ calls' = <<"__cspaceRange", "__cspaceSwitch">>
            /\ UNCHANGED <<cvt_img, bin_img>>
       ELSE \E cvt \in CspaceSwitch(i, c) :
                /\ cvt_img' = cvt
                /\ bin_img' = CspaceRange(cvt, b.lowerb, b.upperb)
                /\ calls' = <<"__cspaceRange", "__cspaceSwitch", "cv2.inRange">>
                /\ pc' = "returned"
                /\ err' = err
    /\ UNCHANGED <<cspace_label, slider_pos, ret>>

\* A call is made only from the idle state: the guard is stated first.
Call ==
    /\ pc = "idle"
    /\ \/ \E i \in Images, l \in Labels, s \in MainSliders : CallMain(i, l, s)
       \/ \E c \in CspaceIds, s \in SliderSeqs : CallBounds(c, s)
       \/ \E i \in Images, c \in CspaceIds : CallSwitch(i, c)
       \/ \E i \in Images, c \in CspaceIds : \E b \in RangeBounds(c) : CallRange(i, c, b)

Next ==
    \/ Call
    \/ MainResolve
    \/ MainBounds
    \/ MainRange
    \/ MainOutput

Spec == Init /\ [][Next]_vars

\* ------------------------------------------------------------ the claims
\* The native ranges as the specification states them.
NativeMin(c) == IF c = 3 THEN <<0, 1, 1>> ELSE <<0, 0, 0>>
NativeMax(c) == IF c \in {1, 2} THEN <<180, 255, 255>> ELSE <<255, 255, 255>>

\* __cspaceBounds, called directly, has returned.
BoundsDone == entry = "bounds" /\ pc = "returned"
\* __cspaceRange has returned a mask, called directly or by main.
RangeDone ==
    \/ entry = "range" /\ pc = "returned"
    \/ entry = "main" /\ pc \in {"main_142", "returned"}
\* main holds bounds computed from its sliders.
MainBounded == entry = "main" /\ pc \in {"main_139", "main_142", "returned"}
AllSliders(x) == \A k \in 1..6 : slider_pos[k] = x
\* The channels of the bounds held: three, or the first alone for Grayscale.
Channels == DOMAIN lowerb.v
LowSlider(c) == slider_pos[2 * c - 1]
HighSlider(c) == slider_pos[2 * c]
\* The slider positions are what a caller is to give: six values in [0,100].
SlidersValid == \A k \in 1..6 : slider_pos[k] \in 0..100

\* C1: for each identifier 0..7, sliders all 0 give lowerb equal to the native
\* minimum and sliders all 100 give upperb equal to the native maximum (the
\* first component only for Grayscale); Lab with [0,100,0,100,0,100] gives
\* lowerb [0,1,1] and upperb [255,255,255].
C1_ZeroAndFullSliders ==
    (BoundsDone /\ cspace \in 0..7) =>
        /\ Len(lowerb.v) = (IF cspace = 7 THEN 1 ELSE 3)
        /\ Len(upperb.v) = Len(lowerb.v)
        /\ AllSliders(0) =>
               \A c \in Channels : lowerb.v[c] = FromInt(NativeMin(cspace)[c])
        /\ AllSliders(100) =>
               \A c \in Channels : upperb.v[c] = FromInt(NativeMax(cspace)[c])
        /\ (cspace = 3 /\ slider_pos = <<0, 100, 0, 100, 0, 100>>) =>
               /\ lowerb.v = <<0, FromInt(1), FromInt(1)>>
               /\ upperb.v = <<FromInt(255), FromInt(255), FromInt(255)>>

C1_Witness ==
    /\ BoundsDone /\ cspace = 3 /\ AllSliders(0)
    /\ lowerb.v = <<0, FromInt(1), FromInt(1)>>

\* C2: every returned component is exactly slider * (max - min) / 100 + min,
\* low sliders at the even Python indices and high sliders at the odd ones,
\* with no truncation: Grayscale with [0,50,0,0,0,0] gives 0 and 127.5.
C2_ExactScaling ==
    (BoundsDone /\ cspace \in 0..7) =>
        /\ \A c \in Channels :
               LET d == NativeMax(cspace)[c] - NativeMin(cspace)[c]
                   m == NativeMin(cspace)[c]
               IN  /\ 100 * lowerb.v[c] = Unit * (LowSlider(c) * d + 100 * m)
                   /\ 100 * upperb.v[c] = Unit * (HighSlider(c) * d + 100 * m)
        /\ (cspace = 7 /\ slider_pos = <<0, 50, 0, 0, 0, 0>>) =>
               /\ lowerb.v = <<0>>
               /\ 2 * upperb.v[1] = FromInt(255)
               /\ upperb.v[1] # FromInt(127)

C2_Witness ==
    /\ BoundsDone /\ cspace = 7 /\ slider_pos = <<0, 50, 0, 0, 0, 0>>
    /\ 2 * upperb.v[1] = FromInt(255)

\* C3: for six slider positions in [0,100], main returns lowerb and upperb
\* each as a list, of length 1 for the Grayscale label "Gray" and of length 3
\* for the seven other labels.
C3_BoundsReturnedAsLists ==
    (entry = "main" /\ pc = "returned" /\ SlidersValid) =>
        /\ ret.lowerb.kind = "list"
        /\ ret.upperb.kind = "list"
        /\ Len(ret.lowerb.v) = (IF cspace_label = "Gray" THEN 1 ELSE 3)
        /\ Len(ret.upperb.v) = (IF cspace_label = "Gray" THEN 1 ELSE 3)

\* C4: main with a label that is not a key of cspace_dict fails at the label's
\* resolution, before any helper or library call runs, and returns nothing:
\* no mask, no bounds.
C4_UnknownLabelFailsFirst ==
    (entry = "main" /\ cspace_label \notin DOMAIN cspace_dict /\ pc # "main_135") =>
        /\ pc = "raised"
        /\ err = "KeyError"
        /\ calls = <<>>
        /\ ret.kind = "None"
        /\ bin_img = <<>>
        /\ cvt_img = <<>>
        /\ lowerb.kind = "None"
        /\ upperb.kind = "None"

C4_Witness == entry = "main" /\ cspace_label = "CMYK" /\ pc = "raised" /\ calls = <<>>

\* C5: main, called with any of the eight labels its docstring lists (BGR, HSV,
\* HLS, Lab, Luv, YCrCb, XYZ, Grayscale) and six slider positions in [0,100],
\* does not fail.
C5_DocLabelsAccepted ==
    (entry = "main" /\ cspace_label \in DocLabels /\ SlidersValid) => pc # "raised"

\* C6 as claimed: __cspaceBounds with an identifier outside 0..7 fails and
\* returns no bounds.
C6_BoundsRejectsUnknownId ==
    (entry = "bounds" /\ cspace \notin 0..7) =>
        (pc = "raised" /\ lowerb.kind = "None" /\ upperb.kind = "None")

\* C6 as amended: __cspaceBounds with an identifier outside 0..7 does not fail;
\* it returns three-component bounds scaled over the default range 0..255.
\* Only __cspaceSwitch (and __cspaceRange through it) fails for such an
\* identifier, with KeyError and no image or mask.
C6_BoundsDefaultsUnknownId ==
    /\ (entry = "bounds" /\ cspace \notin 0..7) =>
           /\ pc = "returned"
           /\ err = ""
           /\ lowerb.kind = "ndarray" /\ upperb.kind = "ndarray"
           /\ Len(lowerb.v) = 3 /\ Len(upperb.v) = 3
           /\ \A c \in 1..3 :
                  /\ 100 * lowerb.v[c] = Unit * LowSlider(c) * 255
                  /\ 100 * upperb.v[c] = Unit * HighSlider(c) * 255
    /\ (entry \in {"switch", "range"} /\ cspace \notin 0..7) =>
           /\ pc = "raised"
           /\ err = "KeyError"
           /\ cvt_img = <<>>
           /\ bin_img = <<>>

C6_Witness ==
    /\ BoundsDone /\ cspace = 8 /\ AllSliders(100)
    /\ upperb.v = <<FromInt(255), FromInt(255), FromInt(255)>>

\* C7 as claimed: whenever some slider is below 0 or above 100, the mask is
\* entirely false.
C7_OutOfRangeNeverMatches ==
    (entry = "main" /\ pc = "returned" /\ \E k \in 1..6 : slider_pos[k] \notin 0..100) =>
        \A i \in DOMAIN bin_img : bin_img[i] = 0

\* C7 as amended: an out-of-range slider is neither rejected nor clamped; on
\* every channel returned the bound lies below the native minimum (and below
\* 0 for a high slider) when its slider is below 0, and above the native
\* maximum when its slider is above 100.  The mask is entirely false, for
\* pixels whose values do not exceed the native maximum, when on some channel
\* used the low slider is above 100 or the high slider is below 0.
C7_OutOfRangeExtrapolates ==
    /\ (entry = "bounds" /\ cspace \in 0..7) => pc = "returned"
    /\ ((BoundsDone /\ cspace \in 0..7) \/ MainBounded) =>
           \A c \in Channels :
               /\ LowSlider(c) < 0 => lowerb.v[c] < FromInt(NativeMin(cspace)[c])
               /\ LowSlider(c) > 100 => lowerb.v[c] > FromInt(NativeMax(cspace)[c])
               /\ HighSlider(c) < 0 =>
                      upperb.v[c] < FromInt(NativeMin(cspace)[c]) /\ upperb.v[c] < 0
               /\ HighSlider(c) > 100 => upperb.v[c] > FromInt(NativeMax(cspace)[c])
    /\ (entry = "main" /\ pc \in {"main_142", "returned"}
            /\ \E c \in Channels : LowSlider(c) > 100 \/ HighSlider(c) < 0) =>
           \A i \in DOMAIN bin_img :
               (\A c \in Channels :
                    0 <= cvt_img[i][c] /\ cvt_img[i][c] <= NativeMax(cspace)[c])
                   => bin_img[i] = 0

C7_Witness ==
    /\ entry = "main" /\ pc = "returned"
    /\ LowSlider(1) > 100
    /\ lowerb.v[1] > FromInt(NativeMax(cspace)[1])
    /\ \A i \in DOMAIN bin_img : bin_img[i] = 0

C9_HighSliderMonotone ==
    BoundsDone =>
        \A c \in 1..3 : \A x \in SliderVals :
            x >= HighSlider(c) =>
                LET r == CspaceBounds(cspace, [slider_pos EXCEPT ![2 * c] = x])
                IN  /\ r.lowerb = lowerb
                    /\ r.upperb.kind = upperb.kind
                    /\ Len(r.upperb.v) = Len(upperb.v)
                    /\ \A k \in DOMAIN upperb.v :
                           IF k = c THEN r.upperb.v[k] >= upperb.v[k]
                                    ELSE r.upperb.v[k] = upperb.v[k]

C9_Witness ==
    /\ BoundsDone /\ cspace = 1 /\ HighSlider(1) = 50
    /\ CspaceBounds(cspace, [slider_pos EXCEPT ![2] = 100]).upperb.v[1] > upperb.v[1]

\* C10: with all six sliders in [0,100], every returned component lies in the
\* native range of its channel, and lowerb[c] <= upperb[c] exactly when the
\* channel's low slider is <= its high slider.
C10_InRangeSlidersStayNative ==
    (BoundsDone /\ cspace \in 0..7 /\ \A k \in 1..6 : slider_pos[k] \in 0..100) =>
        \A c \in Channels :
            /\ FromInt(NativeMin(cspace)[c]) <= lowerb.v[c]
            /\ lowerb.v[c] <= FromInt(NativeMax(cspace)[c])
            /\ FromInt(NativeMin(cspace)[c]) <= upperb.v[c]
            /\ upperb.v[c] <= FromInt(NativeMax(cspace)[c])
            /\ (lowerb.v[c] <= upperb.v[c]) <=> (LowSlider(c) <= HighSlider(c))

C10_Witness ==
    /\ BoundsDone /\ cspace = 3
    /\ \A k \in 1..6 : slider_pos[k] \in 0..100
    /\ LowSlider(2) = 50 /\ HighSlider(2) = 0
    /\ lowerb.v[2] > upperb.v[2]

====
